---------------------------- MODULE Spec2Model ----------------------------
(***************************************************************************)
(* Parking-lot controller sketches (ESP32 / Arduino).                      *)
(*                                                                         *)
(* Variants modelled:                                                      *)
(*   "lcd"  - 3-slot barrier system with LCD      (src/unnamed/part_002)   *)
(*   "web"  - 3-slot system with web interface                             *)
(*            (src/simple_parking_barrier_system.ino)                      *)
(*   "six"  - 6-slot system with LCD              (src/unnamed/part_003)   *)
(*                                                                         *)
(*   "oled" - 3-slot barrier system with OLED     (src/unnamed/part_000)   *)
(*                                                                         *)
(* The OLED barrier sketch has the same sensor scan, button, barrier and   *)
(* counter code as part_002, line for line; it differs in what the display *)
(* shows and in when loop() renders it.  Spec explores "lcd", "web" and    *)
(* "six"; SpecOled explores "oled"; SpecDraw explores "lcd" on a display   *)
(* that takes time to draw; SpecTimers explores "lcd" around the wrap of   *)
(* millis(); SpecWiFi explores the web sketch from power-on.               *)
(*                                                                         *)
(* Every pass of loop() reads every sensor and the button, and every       *)
(* reading is free.  A barrier sketch is followed for MaxPasses passes     *)
(* from each of its initial states: the end of setup() and the states of   *)
(* the same sketch after a fixed history of readings (Starts, StartsDraw,  *)
(* StartsWrap), computed pass by pass with the definitions of the model.   *)
(*                                                                         *)
(* One pass of loop() is one action.  millis() is the variable now at the  *)
(* start of a pass; the scan, the button handler and the timer of the pass *)
(* read that value.  The clock advances by the delay() calls of the code:  *)
(* the delay() that ends every pass and the three delay(5) of              *)
(* performMemoryCleanup().  The time the display library takes to draw is  *)
(* not in src/: it is the parameter drawTime, 0 in Spec, SpecOled and      *)
(* SpecWiFi and DrawTime in SpecDraw; a call of updateDisplay() spends it  *)
(* before it reads millis().  The first pass starts when setup() returns.  *)
(*                                                                         *)
(* unsigned long is 32 bits wide.  TLC's integers are 32 bits wide and     *)
(* signed, so an unsigned long is held as its two's complement reading:    *)
(* 0 .. 2^31 - 1 stand for themselves and -n stands for 2^32 - n.  In that *)
(* reading unsigned addition and subtraction are the signed ones (the wrap *)
(* from 2^32 - 1 to 0 is the step from -1 to 0), a negative value is       *)
(* greater than every non-negative one, and the division by 1000 follows   *)
(* from 2^32 = 4294967 * 1000 + 296.  No explored value comes near 2^31,   *)
(* where the reading itself would wrap.                                    *)
(***************************************************************************)
EXTENDS Integers, Sequences, FiniteSets, TLC

(***************************************************************************)
(* Program constants                                                       *)
(***************************************************************************)
LOW == 0
HIGH == 1
MEMORY_CLEANUP_INTERVAL == 30000
BARRIER_CLOSED_ANGLE == 0
BARRIER_OPEN_ANGLE == 90
BARRIER_OPEN_DURATION == 5000
DEBOUNCE_DELAY == 50
DISPLAY_UPDATE_INTERVAL == 10000
STATUS_UPDATE_INTERVAL == 1000
WIFI_MAX_ATTEMPTS == 20
WIFI_POLL_DELAY == 500

Variants == {"lcd", "web", "six"}

SENSOR_COUNT(v) == IF v = "six" THEN 6 ELSE 3

Slots(v) == 0 .. (SENSOR_COUNT(v) - 1)

HasBarrier(v) == v \in {"lcd", "oled"}

\* period of the status output that loop() renders unconditionally
StatusInterval(v) ==
  IF v = "web" THEN STATUS_UPDATE_INTERVAL
  ELSE IF v = "six" THEN 5000
  ELSE DISPLAY_UPDATE_INTERVAL

(***************************************************************************)
(* Bounds of the exploration                                               *)
(***************************************************************************)
MaxPasses == 6
MaxNowNoBarrier == 2300
MaxDetections == 4
MaxDetectionsSix == 6
DrawTime == 70
MaxNowOffline == 200

\* where the stopwatches stop
WatchMax == 100000

\* time of the end of setup(): the delay() that precedes systemStartTime = millis()
BootTime(v) == IF v = "web" THEN 1000 ELSE 2000

\* the delay() that ends every pass of loop()
TickPeriod(v) == IF HasBarrier(v) THEN 200 ELSE 100

\* performMemoryCleanup(): three times delay(5)
CleanupTime == 3 * 5

\* the sketches without barrier are followed up to this millis()
TimeLimit(v) == MaxNowNoBarrier

DetectionLimit(v) == IF v = "six" THEN MaxDetectionsSix ELSE MaxDetections

\* value of lastRaw before the first pass of loop()
NoReading == 2

VARIABLES
  variant,            \* which sketch is running
  pc,                 \* position inside loop(): "client" (before server.handleClient) or "scan"
  now,                \* millis() of the current pass
  slotOccupied,
  previousSlotState,
  occupiedCount,
  availableSlots,
  totalDetections,
  systemStartTime,
  redLed,
  greenLed,
  barrierOpen,
  barrierOpenTime,
  servoAngle,         \* last angle written to barrierServo
  buttonPressed,
  lastButtonState,
  lastDebounceTime,
  lastDisplayUpdate,  \* time of the last periodic status output (lastStatusUpdate in
                      \* the web sketch, lastUpdateTime in the 6-slot sketch)
  servoLog,           \* barrierServo.write calls of the last pass, in order
  rendered,           \* what the last step put on the display, the serial status block
                      \* and the HTTP response, in order
  lastRaw,            \* sensor levels read by the last pass
  lastPin,            \* button level read by the last pass (the pulled-up level before the first)
  rawSince,           \* time of the pass at which the button level last differed from the pass before
  wifi,               \* initializeWiFi() of the web sketch: attempts, its counter, and
                      \* connected, what its last WiFi.status() returned
  lastMemoryCleanup,
  drawTime,           \* time the display library takes for the drawing calls of one
                      \* updateDisplay(), spent before its millis()
  spent,              \* time the body of the last pass took: its delays and its drawing
  elapsed             \* calls, the number of passes of loop() of a barrier sketch made
                      \* since the initial state; the stopwatches, in true milliseconds
                      \* up to WatchMax: open, since the barrier was opened, and raw,
                      \* since the button reading last changed, both read at the start
                      \* of the latest pass

vars == <<variant, pc, now, slotOccupied, previousSlotState, occupiedCount,
          availableSlots, totalDetections, systemStartTime, redLed, greenLed,
          barrierOpen, barrierOpenTime, servoAngle, buttonPressed,
          lastButtonState, lastDebounceTime, lastDisplayUpdate, servoLog,
          rendered, lastRaw, lastPin, rawSince, wifi, lastMemoryCleanup,
          drawTime, spent, elapsed>>

\* 2^32 = U32_DIV_1000 * 1000 + U32_MOD_1000
U32_DIV_1000 == 4294967
U32_MOD_1000 == 296

\* a < b for unsigned long a, b
Below(a, b) == IF (a < 0) = (b < 0) THEN a < b ELSE b < 0

\* subtraction that yields 0 where the unsigned one wraps
Sub_noWrap(a, b) == IF Below(a, b) THEN 0 ELSE a - b

\* unsigned long subtraction
Sub(a, b) == a - b

\* x > c and x >= c for an unsigned long x and a constant c
Gt(x, c) == Below(c, x)
Ge(x, c) == ~Below(x, c)

\* x / 1000 for an unsigned long x
Div1000(x) ==
  IF x >= 0 THEN x \div 1000
  ELSE U32_DIV_1000 + (x + U32_MOD_1000) \div 1000

\* bool -> int promotion in a comparison such as (buttonPressed == LOW)
BoolToInt(b) == IF b THEN 1 ELSE 0

\* int -> bool conversion of bool reading = digitalRead(BUTTON_PIN)
IntToBool(x) == x # 0

(***************************************************************************)
(* The program state as a record, so that the calls of one pass compose.   *)
(* stateChanged is the local of loop(); servoLog, serialEdges and rendered *)
(* collect the servo writes, the "Slot x OCCUPIED / AVAILABLE" lines and   *)
(* the status outputs of the pass, in order.                               *)
(***************************************************************************)
Cur ==
  [ slotOccupied |-> slotOccupied, previousSlotState |-> previousSlotState,
    occupiedCount |-> occupiedCount, availableSlots |-> availableSlots,
    totalDetections |-> totalDetections, systemStartTime |-> systemStartTime,
    redLed |-> redLed, greenLed |-> greenLed,
    barrierOpen |-> barrierOpen, barrierOpenTime |-> barrierOpenTime,
    servoAngle |-> servoAngle, buttonPressed |-> buttonPressed,
    lastButtonState |-> lastButtonState, lastDebounceTime |-> lastDebounceTime,
    lastDisplayUpdate |-> lastDisplayUpdate,
    lastMemoryCleanup |-> lastMemoryCleanup, drawTime |-> drawTime,
    servoLog |-> <<>>, serialEdges |-> <<>>, rendered |-> <<>>,
    stateChanged |-> FALSE, spent |-> 0 ]

Assign(s) ==
  /\ slotOccupied' = s.slotOccupied
  /\ previousSlotState' = s.previousSlotState
  /\ occupiedCount' = s.occupiedCount
  /\ availableSlots' = s.availableSlots
  /\ totalDetections' = s.totalDetections
  /\ systemStartTime' = s.systemStartTime
  /\ redLed' = s.redLed
  /\ greenLed' = s.greenLed
  /\ barrierOpen' = s.barrierOpen
  /\ barrierOpenTime' = s.barrierOpenTime
  /\ servoAngle' = s.servoAngle
  /\ buttonPressed' = s.buttonPressed
  /\ lastButtonState' = s.lastButtonState
  /\ lastDebounceTime' = s.lastDebounceTime
  /\ lastDisplayUpdate' = s.lastDisplayUpdate
  /\ lastMemoryCleanup' = s.lastMemoryCleanup
  /\ spent' = s.spent
  /\ servoLog' = s.servoLog
  /\ rendered' = s.rendered

(***************************************************************************)
(* Core functions                                                          *)
(***************************************************************************)
RECURSIVE CountFrom_offByOne(_, _, _)
\* the counting loop with the bound i < SENSOR_COUNT - 1
CountFrom_offByOne(occ, i, n) ==
  IF i >= n - 1 THEN 0
  ELSE (IF occ[i] THEN 1 ELSE 0) + CountFrom_offByOne(occ, i + 1, n)

RECURSIVE CountFrom(_, _, _)
\* the for loop of updateOccupancyCounters, from index i
CountFrom(occ, i, n) ==
  IF i >= n THEN 0
  ELSE (IF occ[i] THEN 1 ELSE 0) + CountFrom(occ, i + 1, n)

\* updateOccupancyCounters without its last line: availableSlots is left stale
updateOccupancyCounters_staleAvailable(s, v) ==
  [s EXCEPT !.occupiedCount = CountFrom(s.slotOccupied, 0, SENSOR_COUNT(v))]

updateOccupancyCounters(s, v) ==
  LET c == CountFrom(s.slotOccupied, 0, SENSOR_COUNT(v))
  IN  [s EXCEPT !.occupiedCount = c, !.availableSlots = SENSOR_COUNT(v) - c]

\* updateLEDStatus that lights red on a full lot but leaves green as it was
updateLEDStatus_greenStays(s, v) ==
  IF s.occupiedCount = SENSOR_COUNT(v)
  THEN [s EXCEPT !.redLed = TRUE]
  ELSE [s EXCEPT !.redLed = FALSE, !.greenLed = TRUE]

\* updateLEDStatus whose 6-slot form lights both LEDs on a partly occupied lot
updateLEDStatus_sixPartialBoth(s, v) ==
  IF v = "six"
  THEN IF s.occupiedCount = 0
       THEN [s EXCEPT !.redLed = FALSE, !.greenLed = TRUE]
       ELSE IF s.occupiedCount = SENSOR_COUNT(v)
            THEN [s EXCEPT !.redLed = TRUE, !.greenLed = FALSE]
            ELSE [s EXCEPT !.redLed = TRUE, !.greenLed = TRUE]
  ELSE IF s.occupiedCount = SENSOR_COUNT(v)
       THEN [s EXCEPT !.redLed = TRUE, !.greenLed = FALSE]
       ELSE [s EXCEPT !.redLed = FALSE, !.greenLed = TRUE]

updateLEDStatus(s, v) ==
  IF v = "six"
  THEN IF s.occupiedCount = 0
       THEN [s EXCEPT !.redLed = FALSE, !.greenLed = TRUE]
       ELSE IF s.occupiedCount = SENSOR_COUNT(v)
            THEN [s EXCEPT !.redLed = TRUE, !.greenLed = FALSE]
            ELSE [s EXCEPT !.redLed = FALSE, !.greenLed = TRUE]
  ELSE IF s.occupiedCount = SENSOR_COUNT(v)
       THEN [s EXCEPT !.redLed = TRUE, !.greenLed = FALSE]
       ELSE [s EXCEPT !.redLed = FALSE, !.greenLed = TRUE]

(***************************************************************************)
(* Servo barrier control                                                   *)
(***************************************************************************)
\* openBarrier without barrierOpenTime = millis()
openBarrier_noTime(s, t, by) ==
  IF ~s.barrierOpen
  THEN [s EXCEPT !.servoAngle = BARRIER_OPEN_ANGLE,
                 !.servoLog = Append(@, [by |-> by, angle |-> BARRIER_OPEN_ANGLE]),
                 !.barrierOpen = TRUE]
  ELSE s

\* openBarrier without barrierOpen = true
openBarrier_keepsFlag(s, t, by) ==
  IF ~s.barrierOpen
  THEN [s EXCEPT !.servoAngle = BARRIER_OPEN_ANGLE,
                 !.servoLog = Append(@, [by |-> by, angle |-> BARRIER_OPEN_ANGLE]),
                 !.barrierOpenTime = t]
  ELSE s

openBarrier(s, t, by) ==
  IF ~s.barrierOpen
  THEN [s EXCEPT !.servoAngle = BARRIER_OPEN_ANGLE,
                 !.servoLog = Append(@, [by |-> by, angle |-> BARRIER_OPEN_ANGLE]),
                 !.barrierOpen = TRUE,
                 !.barrierOpenTime = t]
  ELSE s

\* closeBarrier that moves the servo but leaves barrierOpen set
closeBarrier_keepsFlag(s, by) ==
  IF s.barrierOpen
  THEN [s EXCEPT !.servoAngle = BARRIER_CLOSED_ANGLE,
                 !.servoLog = Append(@, [by |-> by, angle |-> BARRIER_CLOSED_ANGLE])]
  ELSE s

closeBarrier(s, by) ==
  IF s.barrierOpen
  THEN [s EXCEPT !.servoAngle = BARRIER_CLOSED_ANGLE,
                 !.servoLog = Append(@, [by |-> by, angle |-> BARRIER_CLOSED_ANGLE]),
                 !.barrierOpen = FALSE]
  ELSE s

\* handleBarrierTiming with > in place of >=
handleBarrierTiming_strict(s, t) ==
  IF s.barrierOpen /\ Gt(Sub(t, s.barrierOpenTime), BARRIER_OPEN_DURATION)
  THEN closeBarrier(s, "timer")
  ELSE s

\* handleBarrierTiming that compares with the debounce delay
handleBarrierTiming_wrongDuration(s, t) ==
  IF s.barrierOpen /\ Ge(Sub(t, s.barrierOpenTime), DEBOUNCE_DELAY)
  THEN closeBarrier(s, "timer")
  ELSE s

handleBarrierTiming(s, t) ==
  IF s.barrierOpen /\ Ge(Sub(t, s.barrierOpenTime), BARRIER_OPEN_DURATION)
  THEN closeBarrier(s, "timer")
  ELSE s

(***************************************************************************)
(* Button control                                                          *)
(***************************************************************************)
\* handleButtonPress whose press always opens: no close of an open barrier
handleButtonPress_openOnly(s, pin, t) ==
  LET reading == IntToBool(pin)
      s1 == IF reading # s.lastButtonState
            THEN [s EXCEPT !.lastDebounceTime = t]
            ELSE s
      s2 == IF Gt(Sub(t, s1.lastDebounceTime), DEBOUNCE_DELAY)
            THEN IF reading # s1.buttonPressed
                 THEN LET s3 == [s1 EXCEPT !.buttonPressed = reading]
                      IN  IF BoolToInt(s3.buttonPressed) = LOW
                          THEN openBarrier(s3, t, "button")
                          ELSE s3
                 ELSE s1
            ELSE s1
  IN  [s2 EXCEPT !.lastButtonState = reading]

\* handleButtonPress without the debounce window: a differing reading is committed at once
handleButtonPress_noDebounce(s, pin, t) ==
  LET reading == IntToBool(pin)
      s1 == IF reading # s.lastButtonState
            THEN [s EXCEPT !.lastDebounceTime = t]
            ELSE s
      s2 == IF reading # s1.buttonPressed
            THEN LET s3 == [s1 EXCEPT !.buttonPressed = reading]
                 IN  IF BoolToInt(s3.buttonPressed) = LOW
                     THEN IF s3.barrierOpen
                          THEN closeBarrier(s3, "button")
                          ELSE openBarrier(s3, t, "button")
                     ELSE s3
            ELSE s1
  IN  [s2 EXCEPT !.lastButtonState = reading]

\* handleButtonPress without the test buttonPressed == LOW: every committed change toggles
handleButtonPress_actsOnAnyCommit(s, pin, t) ==
  LET reading == IntToBool(pin)
      s1 == IF reading # s.lastButtonState
            THEN [s EXCEPT !.lastDebounceTime = t]
            ELSE s
      s2 == IF Gt(Sub(t, s1.lastDebounceTime), DEBOUNCE_DELAY)
            THEN IF reading # s1.buttonPressed
                 THEN LET s3 == [s1 EXCEPT !.buttonPressed = reading]
                      IN  IF s3.barrierOpen
                          THEN closeBarrier(s3, "button")
                          ELSE openBarrier(s3, t, "button")
                 ELSE s1
            ELSE s1
  IN  [s2 EXCEPT !.lastButtonState = reading]

\* handleButtonPress that tests the level, not the change: it toggles on
\* every pass that finds the debounced level LOW
handleButtonPress_levelTriggered(s, pin, t) ==
  LET reading == IntToBool(pin)
      s1 == IF reading # s.lastButtonState
            THEN [s EXCEPT !.lastDebounceTime = t]
            ELSE s
      s2 == IF Gt(Sub(t, s1.lastDebounceTime), DEBOUNCE_DELAY)
            THEN LET s3 == [s1 EXCEPT !.buttonPressed = reading]
                 IN  IF BoolToInt(s3.buttonPressed) = LOW
                     THEN IF s3.barrierOpen
                          THEN closeBarrier(s3, "button")
                          ELSE openBarrier(s3, t, "button")
                     ELSE s3
            ELSE s1
  IN  [s2 EXCEPT !.lastButtonState = reading]

handleButtonPress(s, pin, t) ==
  LET reading == IntToBool(pin)
      s1 == IF reading # s.lastButtonState
            THEN [s EXCEPT !.lastDebounceTime = t]
            ELSE s
      s2 == IF Gt(Sub(t, s1.lastDebounceTime), DEBOUNCE_DELAY)
            THEN IF reading # s1.buttonPressed
                 THEN LET s3 == [s1 EXCEPT !.buttonPressed = reading]
                      IN  IF BoolToInt(s3.buttonPressed) = LOW
                          THEN IF s3.barrierOpen
                               THEN closeBarrier(s3, "button")
                               ELSE openBarrier(s3, t, "button")
                          ELSE s3
                 ELSE s1
            ELSE s1
  IN  [s2 EXCEPT !.lastButtonState = reading]

(***************************************************************************)
(* The sensor scan of loop()                                               *)
(***************************************************************************)
\* the loop body with the auto-open outside the else branch: any edge opens
ScanSlot_opensOnAnyEdge(s, v, raw, t, i) ==
  LET currentState == (raw[i] = LOW)
  IN  IF currentState # s.previousSlotState[i]
      THEN LET s1 == [s EXCEPT !.previousSlotState[i] = currentState,
                               !.slotOccupied[i] = currentState,
                               !.stateChanged = TRUE,
                               !.serialEdges = Append(@, [slot |-> i, occupied |-> currentState])]
               s2 == IF currentState
                     THEN [s1 EXCEPT !.totalDetections = @ + 1]
                     ELSE s1
           IN  IF HasBarrier(v) /\ ~s2.barrierOpen
               THEN openBarrier(s2, t, "scan")
               ELSE s2
      ELSE s

\* the loop body without previousSlotState[i] = currentState
ScanSlot_keepsPrevious(s, v, raw, t, i) ==
  LET currentState == (raw[i] = LOW)
  IN  IF currentState # s.previousSlotState[i]
      THEN LET s1 == [s EXCEPT !.slotOccupied[i] = currentState,
                               !.stateChanged = TRUE,
                               !.serialEdges = Append(@, [slot |-> i, occupied |-> currentState])]
           IN  IF currentState
               THEN [s1 EXCEPT !.totalDetections = @ + 1]
               ELSE IF HasBarrier(v) /\ ~s1.barrierOpen
                    THEN openBarrier(s1, t, "scan")
                    ELSE s1
      ELSE s

\* body of the for loop for slot i
\* ScanSlot whose vacated edge restarts the open period of an open barrier
ScanSlot_restartsTimer(s, v, raw, t, i) ==
  LET currentState == (raw[i] = LOW)
  IN  IF currentState # s.previousSlotState[i]
      THEN LET s1 == [s EXCEPT !.previousSlotState[i] = currentState,
                               !.slotOccupied[i] = currentState,
                               !.stateChanged = TRUE,
                               !.serialEdges = Append(@, [slot |-> i, occupied |-> currentState])]
           IN  IF currentState
               THEN [s1 EXCEPT !.totalDetections = @ + 1]
               ELSE IF HasBarrier(v)
                    THEN IF ~s1.barrierOpen
                         THEN openBarrier(s1, t, "scan")
                         ELSE [s1 EXCEPT !.barrierOpenTime = t]
                    ELSE s1
      ELSE s

\* ScanSlot that counts every edge as a detection
ScanSlot_countsAnyEdge(s, v, raw, t, i) ==
  LET currentState == (raw[i] = LOW)
  IN  IF currentState # s.previousSlotState[i]
      THEN LET s1 == [s EXCEPT !.previousSlotState[i] = currentState,
                               !.slotOccupied[i] = currentState,
                               !.stateChanged = TRUE,
                               !.totalDetections = @ + 1,
                               !.serialEdges = Append(@, [slot |-> i, occupied |-> currentState])]
           IN  IF currentState
               THEN s1
               ELSE IF HasBarrier(v) /\ ~s1.barrierOpen
                    THEN openBarrier(s1, t, "scan")
                    ELSE s1
      ELSE s

\* ScanSlot that takes HIGH for occupied
ScanSlot_activeHigh(s, v, raw, t, i) ==
  LET currentState == (raw[i] = HIGH)
  IN  IF currentState # s.previousSlotState[i]
      THEN LET s1 == [s EXCEPT !.previousSlotState[i] = currentState,
                               !.slotOccupied[i] = currentState,
                               !.stateChanged = TRUE,
                               !.serialEdges = Append(@, [slot |-> i, occupied |-> currentState])]
           IN  IF currentState
               THEN [s1 EXCEPT !.totalDetections = @ + 1]
               ELSE IF HasBarrier(v) /\ ~s1.barrierOpen
                    THEN openBarrier(s1, t, "scan")
                    ELSE s1
      ELSE s

ScanSlot(s, v, raw, t, i) ==
  LET currentState == (raw[i] = LOW)
  IN  IF currentState # s.previousSlotState[i]
      THEN LET s1 == [s EXCEPT !.previousSlotState[i] = currentState,
                               !.slotOccupied[i] = currentState,
                               !.stateChanged = TRUE,
                               !.serialEdges = Append(@, [slot |-> i, occupied |-> currentState])]
           IN  IF currentState
               THEN [s1 EXCEPT !.totalDetections = @ + 1]
               ELSE IF HasBarrier(v) /\ ~s1.barrierOpen
                    THEN openBarrier(s1, t, "scan")
                    ELSE s1
      ELSE s

RECURSIVE ScanSensors(_, _, _, _, _)
ScanSensors(s, v, raw, t, i) ==
  IF i >= SENSOR_COUNT(v) THEN s
  ELSE ScanSensors(ScanSlot(s, v, raw, t, i), v, raw, t, i + 1)

(***************************************************************************)
(* Status outputs                                                          *)
(***************************************************************************)
\* the "Gate:CLOSED" / "Up:" figure: seconds below one minute, then minutes;
\* the 6-slot sketch shows hours from one hour on
Uptime(s, v, t) ==
  LET uptime == Div1000(Sub(t, s.systemStartTime))
  IN  IF uptime < 60 THEN [value |-> uptime, unit |-> "s"]
      ELSE IF v = "six" /\ uptime >= 3600
           THEN [value |-> uptime \div 3600, unit |-> "h"]
           ELSE [value |-> uptime \div 60, unit |-> "m"]

\* the "Gate:OPEN" figure: unsigned (BARRIER_OPEN_DURATION - (millis() - barrierOpenTime)) / 1000
TimeLeft(s, t) ==
  [value |-> Div1000(Sub(BARRIER_OPEN_DURATION, Sub(t, s.barrierOpenTime))),
   unit |-> "s"]

\* what updateDisplay() puts on the screen
Screen(s, v, t) ==
  IF v = "six"
  THEN [kind |-> "display", occupiedCount |-> s.occupiedCount,
        time |-> Uptime(s, v, t),
        detections |-> IF s.totalDetections < 100 THEN s.totalDetections ELSE 99]
  ELSE IF v = "oled"
  THEN [kind |-> "display", occupiedCount |-> s.occupiedCount,
        barrierOpen |-> s.barrierOpen,
        time |-> IF s.barrierOpen THEN TimeLeft(s, t) ELSE Uptime(s, v, t),
        slotOccupied |-> s.slotOccupied,
        availableSlots |-> s.availableSlots]
  ELSE [kind |-> "display", occupiedCount |-> s.occupiedCount,
        barrierOpen |-> s.barrierOpen,
        time |-> IF s.barrierOpen THEN TimeLeft(s, t) ELSE Uptime(s, v, t)]

\* millis() inside a pass that started at t
Millis(s, t) == t + s.spent

\* updateDisplay(): the drawing calls, then the figure of the second row
\* from the millis() they leave
updateDisplay(s, v, t) ==
  LET s1 == [s EXCEPT !.spent = @ + s.drawTime]
  IN  [s1 EXCEPT !.rendered = Append(@, Screen(s1, v, Millis(s1, t)))]

\* The "Barrier Status" line is printed by the barrier sketches and by the
\* web sketch, not by the 6-slot sketch.  The web sketch prints it from
\* barrierOpen, which it does not declare (the file does not compile as it
\* stands); it is read here as the global of the barrier sketches, which
\* nothing in the web sketch sets.
printParkingStatus(s, v) ==
  [s EXCEPT !.rendered =
     Append(@, IF v # "six"
               THEN [kind |-> "serial", occupiedCount |-> s.occupiedCount,
                     availableSlots |-> s.availableSlots,
                     barrierOpen |-> s.barrierOpen,
                     slotOccupied |-> s.slotOccupied]
               ELSE [kind |-> "serial", occupiedCount |-> s.occupiedCount,
                     availableSlots |-> s.availableSlots,
                     slotOccupied |-> s.slotOccupied])]

\* millis() - lastDisplayUpdate > DISPLAY_UPDATE_INTERVAL
Due(s, v, t) == Gt(Sub(Millis(s, t), s.lastDisplayUpdate), StatusInterval(v))

\* the tail of loop() with an OLED sketch that recounts but leaves the LEDs
Refresh_oledKeepsLeds(s, v, t) ==
  IF v = "oled"
  THEN LET s1 == IF Due(s, v, t)
                 THEN LET d == updateDisplay(s, v, t)
                      IN  [d EXCEPT !.lastDisplayUpdate = Millis(d, t)]
                 ELSE s
           s2 == IF s1.stateChanged
                 THEN printParkingStatus(updateOccupancyCounters(s1, v), v)
                 ELSE s1
       IN  IF Due(s2, v, t)
           THEN [printParkingStatus(s2, v) EXCEPT !.lastDisplayUpdate = Millis(s2, t)]
           ELSE s2
  ELSE LET s1 == IF s.stateChanged
                 THEN printParkingStatus(
                        updateDisplay(updateLEDStatus(updateOccupancyCounters(s, v), v), v, t), v)
                 ELSE s
       IN  IF Due(s1, v, t)
           THEN LET d == printParkingStatus(updateDisplay(s1, v, t), v)
                IN  [d EXCEPT !.lastDisplayUpdate = Millis(d, t)]
           ELSE s1

\* the tail of loop(): recount and status outputs, in the order of each sketch
Refresh(s, v, t) ==
  IF v = "oled"
  THEN LET s1 == IF Due(s, v, t)
                 THEN LET d == updateDisplay(s, v, t)
                      IN  [d EXCEPT !.lastDisplayUpdate = Millis(d, t)]
                 ELSE s
           s2 == IF s1.stateChanged
                 THEN printParkingStatus(updateLEDStatus(updateOccupancyCounters(s1, v), v), v)
                 ELSE s1
       IN  IF Due(s2, v, t)
           THEN [printParkingStatus(s2, v) EXCEPT !.lastDisplayUpdate = Millis(s2, t)]
           ELSE s2
  ELSE IF v = "web"
  THEN LET s1 == IF s.stateChanged
                 THEN printParkingStatus(updateLEDStatus(updateOccupancyCounters(s, v), v), v)
                 ELSE s
       IN  IF Due(s1, v, t)
           THEN [printParkingStatus(s1, v) EXCEPT !.lastDisplayUpdate = Millis(s1, t)]
           ELSE s1
  ELSE LET s1 == IF s.stateChanged
                 THEN printParkingStatus(
                        updateDisplay(updateLEDStatus(updateOccupancyCounters(s, v), v), v, t), v)
                 ELSE s
       IN  IF Due(s1, v, t)
           THEN LET d == IF v = "six"
                         THEN updateDisplay(s1, v, t)
                         ELSE printParkingStatus(updateDisplay(s1, v, t), v)
                IN  [d EXCEPT !.lastDisplayUpdate = Millis(d, t)]
           ELSE s1

\* handleMemoryCleanup(): performMemoryCleanup() when the interval has
\* elapsed, then lastMemoryCleanup = millis()
handleMemoryCleanup(s, t) ==
  IF Ge(Sub(Millis(s, t), s.lastMemoryCleanup), MEMORY_CLEANUP_INTERVAL)
  THEN LET s1 == [s EXCEPT !.spent = @ + CleanupTime]
       IN  [s1 EXCEPT !.lastMemoryCleanup = Millis(s1, t)]
  ELSE s

\* loop() of the barrier sketch
loopBarrier(s, v, raw, pin, t) ==
  LET s1 == ScanSensors(s, v, raw, t, 0)
      s2 == handleButtonPress(s1, pin, t)
      s3 == handleBarrierTiming(s2, t)
      s4 == handleMemoryCleanup(s3, t)
  IN  Refresh(s4, v, t)

\* loop() of the sketches without a barrier, after server.handleClient()
loopPlain(s, v, raw, t) == Refresh(ScanSensors(s, v, raw, t, 0), v, t)

(***************************************************************************)
(* HTTP API of the web sketch                                              *)
(***************************************************************************)
\* what a pass of loop() finds pending: nothing, GET /, GET /admin,
\* GET /api/status, POST /api/admin with action "reset", with another action
\* or without body, or a request that matches no route of setupWebServer()
\* (a path without handler, GET /api/admin)
Requests == {"none", "root", "admin", "status", "reset", "unknown", "nobody", "notfound"}

\* the dashboard page: the figures it is built from
handleRoot(s, v, t) ==
  [s EXCEPT !.rendered =
     Append(@, [kind |-> "html", code |-> 200,
                occupied |-> s.occupiedCount,
                available |-> s.availableSlots,
                total |-> SENSOR_COUNT(v),
                uptime |-> Div1000(Sub(t, s.systemStartTime)),
                totalDetections |-> s.totalDetections,
                slots |-> s.slotOccupied])]

\* the admin panel page: it is sent with status 200 and writes no global
handleAdmin(s, v, t) ==
  [s EXCEPT !.rendered = Append(@, [kind |-> "html", code |-> 200, page |-> "admin"])]

\* the reply of the WebServer library to a request without route
handleNotFound(s) ==
  [s EXCEPT !.rendered = Append(@, [kind |-> "text", code |-> 404])]

\* handleStatusAPI that restarts the uptime as the reset does
handleStatusAPI_restartsUptime(s, v, t) ==
  [s EXCEPT !.systemStartTime = t,
            !.rendered =
     Append(@, [kind |-> "json", code |-> 200,
                occupied |-> s.occupiedCount,
                available |-> s.availableSlots,
                total |-> SENSOR_COUNT(v),
                uptime |-> 0,
                totalDetections |-> s.totalDetections,
                slots |-> s.slotOccupied])]

handleStatusAPI(s, v, t) ==
  [s EXCEPT !.rendered =
     Append(@, [kind |-> "json", code |-> 200,
                occupied |-> s.occupiedCount,
                available |-> s.availableSlots,
                total |-> SENSOR_COUNT(v),
                uptime |-> Div1000(Sub(t, s.systemStartTime)),
                totalDetections |-> s.totalDetections,
                slots |-> s.slotOccupied])]

\* handleAdminAPI that resets whatever the action is
handleAdminAPI_resetsOnAnyAction(s, v, req, t) ==
  IF req # "nobody"
  THEN LET s1 == [s EXCEPT !.totalDetections = 0,
                           !.systemStartTime = t,
                           !.slotOccupied = [i \in Slots(v) |-> FALSE],
                           !.previousSlotState = [i \in Slots(v) |-> FALSE]]
           s2 == updateLEDStatus(updateOccupancyCounters(s1, v), v)
       IN  [s2 EXCEPT !.rendered =
              Append(@, [kind |-> "admin", code |-> 200, success |-> req = "reset"])]
  ELSE [s EXCEPT !.rendered = Append(@, [kind |-> "admin", code |-> 400])]

\* handleAdminAPI whose reset clears the slots but does not recount
handleAdminAPI_noRecount(s, v, req, t) ==
  IF req # "nobody"
  THEN IF req = "reset"
       THEN [s EXCEPT !.totalDetections = 0,
                      !.systemStartTime = t,
                      !.slotOccupied = [i \in Slots(v) |-> FALSE],
                      !.previousSlotState = [i \in Slots(v) |-> FALSE],
                      !.rendered =
                         Append(@, [kind |-> "admin", code |-> 200, success |-> TRUE])]
       ELSE [s EXCEPT !.rendered =
               Append(@, [kind |-> "admin", code |-> 200, success |-> FALSE])]
  ELSE [s EXCEPT !.rendered = Append(@, [kind |-> "admin", code |-> 400])]

handleAdminAPI(s, v, req, t) ==
  IF req # "nobody"
  THEN IF req = "reset"
       THEN LET s1 == [s EXCEPT !.totalDetections = 0,
                                !.systemStartTime = t,
                                !.slotOccupied = [i \in Slots(v) |-> FALSE],
                                !.previousSlotState = [i \in Slots(v) |-> FALSE]]
                s2 == updateLEDStatus(updateOccupancyCounters(s1, v), v)
            IN  [s2 EXCEPT !.rendered =
                   Append(@, [kind |-> "admin", code |-> 200, success |-> TRUE])]
       ELSE [s EXCEPT !.rendered =
               Append(@, [kind |-> "admin", code |-> 200, success |-> FALSE])]
  ELSE [s EXCEPT !.rendered = Append(@, [kind |-> "admin", code |-> 400])]

\* server.handleClient(): dispatch of at most one pending request
handleClient(s, v, req, t) ==
  IF req \in {"reset", "unknown", "nobody"} THEN handleAdminAPI(s, v, req, t)
  ELSE IF req = "status" THEN handleStatusAPI(s, v, t)
  ELSE IF req = "root" THEN handleRoot(s, v, t)
  ELSE IF req = "admin" THEN handleAdmin(s, v, t)
  ELSE IF req = "notfound" THEN handleNotFound(s)
  ELSE s

(***************************************************************************)
(* Initial states.  A barrier sketch is followed for MaxPasses passes of   *)
(* loop(), every reading free in every pass, from the end of setup() and   *)
(* from later states of a run: the states the sketch is in after the       *)
(* passes of a given history of readings.                                  *)
(***************************************************************************)
\* bool buttonPressed = true
ButtonPressedAtBoot_high == TRUE

\* the initialiser of buttonPressed
ButtonPressedAtBoot == FALSE

\* the globals when setup() reaches its closing updateDisplay()
Boot(v) ==
  [ slotOccupied |-> [i \in Slots(v) |-> FALSE],
    previousSlotState |-> [i \in Slots(v) |-> FALSE],
    occupiedCount |-> 0, availableSlots |-> SENSOR_COUNT(v),
    totalDetections |-> 0, systemStartTime |-> BootTime(v),
    redLed |-> FALSE, greenLed |-> TRUE,
    barrierOpen |-> FALSE, barrierOpenTime |-> 0,
    servoAngle |-> BARRIER_CLOSED_ANGLE, buttonPressed |-> ButtonPressedAtBoot,
    lastButtonState |-> IntToBool(HIGH), lastDebounceTime |-> 0,
    lastDisplayUpdate |-> 0,
    lastMemoryCleanup |-> 0, drawTime |-> 0,
    servoLog |-> <<>>, serialEdges |-> <<>>, rendered |-> <<>>,
    stateChanged |-> FALSE, spent |-> 0 ]

\* sensor levels with cars in the slots of the set c
Cars(c) == [i \in Slots("lcd") |-> IF i \in c THEN LOW ELSE HIGH]

\* The sketch between two passes of loop(): s, its globals with the outputs
\* and the time spent of the last pass; now, millis() at the start of that
\* pass; boot, no pass has run yet; raw and pin, the levels that pass read;
\* since, when the button level last changed; watch, the stopwatches.
\* AtSetup is that state as setup() returns: its closing updateDisplay(),
\* where the sketch has one, has drawn for draw ms.
AtSetup(v, draw) ==
  LET b == [Boot(v) EXCEPT !.drawTime = draw]
  IN  [s |-> IF v = "web" THEN b ELSE updateDisplay(b, v, BootTime(v)),
       now |-> BootTime(v), boot |-> TRUE,
       raw |-> [i \in Slots(v) |-> NoReading], pin |-> HIGH, since |-> 0,
       watch |-> [open |-> 0, raw |-> BootTime(v)]]

\* the locals and the outputs at the start of a pass
Fresh(s) ==
  [s EXCEPT !.servoLog = <<>>, !.serialEdges = <<>>, !.rendered = <<>>,
            !.stateChanged = FALSE, !.spent = 0]

\* a stopwatch reading d ms later
Later(w, d) == IF w + d > WatchMax THEN WatchMax ELSE w + d

\* one pass of loop() of a barrier sketch that reads raw and pin: the first
\* pass starts as setup() returns, every other one delay(TickPeriod) after
\* the body of the pass before
PassOf(r, v, raw, pin) ==
  LET t == IF r.boot THEN r.now + r.s.spent ELSE r.now + r.s.spent + TickPeriod(v)
      s == loopBarrier(Fresh(r.s), v, raw, pin, t)
      opened == \E k \in DOMAIN s.servoLog : s.servoLog[k].angle = BARRIER_OPEN_ANGLE
  IN  [s |-> s, now |-> t, boot |-> FALSE, raw |-> raw, pin |-> pin,
       since |-> IF pin # r.pin THEN t ELSE r.since,
       watch |-> [open |-> IF opened \/ ~r.s.barrierOpen THEN 0
                           ELSE Later(r.watch.open, t - r.now),
                  raw |-> IF pin # r.pin THEN 0 ELSE Later(r.watch.raw, t - r.now)]]

RECURSIVE After(_, _, _)
\* the sketch after the passes of hist: for each entry in turn, passes that
\* read raw and pin, the last of them the first one that starts at till or
\* later (times in the two's complement reading, in which the wrap of
\* millis() is the step from -1 to 0)
After(r, v, hist) ==
  IF hist = <<>> THEN r
  ELSE IF r.boot \/ r.now < hist[1].till
       THEN After(PassOf(r, v, hist[1].raw, hist[1].pin), v, hist)
       ELSE After(r, v, Tail(hist))

\* the sketch after passes that find the lot empty and the button released
\* (a long history is run in stretches, which keeps the evaluation shallow)
Quiet(r, v, till) == After(r, v, <<[raw |-> Cars({}), pin |-> HIGH, till |-> till]>>)

\* Where the runs of a sketch start.  LCD barrier sketch: the end of
\* setup(); 4200 ms after the barrier was opened, by the car of slot A1
\* leaving in the third pass while a car stays in A2, or by a press in the
\* second and third pass of an empty lot; 400 ms before the first memory
\* cleanup falls due.  OLED barrier sketch: the end of setup(); 600 ms
\* before the first periodic display update falls due, the lot full or
\* empty since the first pass.
Starts(v) ==
  IF v = "lcd"
  THEN { AtSetup(v, 0),
         After(AtSetup(v, 0), v, <<[raw |-> Cars({0, 1}), pin |-> HIGH, till |-> 2200],
                                   [raw |-> Cars({1}), pin |-> HIGH, till |-> 6600]>>),
         After(AtSetup(v, 0), v, <<[raw |-> Cars({}), pin |-> HIGH, till |-> 2000],
                                   [raw |-> Cars({}), pin |-> LOW, till |-> 2400],
                                   [raw |-> Cars({}), pin |-> HIGH, till |-> 6600]>>),
         Quiet(Quiet(Quiet(Quiet(AtSetup(v, 0), v, 8000), v, 16000), v, 24000), v, 29600) }
  ELSE IF v = "oled"
  THEN { AtSetup(v, 0),
         After(AtSetup(v, 0), v, <<[raw |-> Cars({0, 1, 2}), pin |-> HIGH, till |-> 9600]>>),
         Quiet(AtSetup(v, 0), v, 9600) }
  ELSE { AtSetup(v, 0) }

\* the LCD barrier sketch on a display that takes DrawTime to draw: the end
\* of setup(), and 19 passes after the car of slot B1 left a full lot in the
\* third pass
StartsDraw ==
  { AtSetup("lcd", DrawTime),
    After(AtSetup("lcd", DrawTime), "lcd",
          <<[raw |-> Cars({0, 1, 2}), pin |-> HIGH, till |-> 2300],
            [raw |-> Cars({0, 1}), pin |-> HIGH, till |-> 6400]>>) }

InitAs(v, r) ==
  /\ variant = v
  /\ pc = IF v = "web" THEN "client" ELSE "scan"
  /\ drawTime = r.s.drawTime
  /\ spent = r.s.spent
  /\ now = r.now
  /\ lastMemoryCleanup = r.s.lastMemoryCleanup
  /\ slotOccupied = r.s.slotOccupied
  /\ previousSlotState = r.s.previousSlotState
  /\ occupiedCount = r.s.occupiedCount
  /\ availableSlots = r.s.availableSlots
  /\ totalDetections = r.s.totalDetections
  /\ systemStartTime = r.s.systemStartTime
  /\ redLed = r.s.redLed
  /\ greenLed = r.s.greenLed
  /\ barrierOpen = r.s.barrierOpen
  /\ barrierOpenTime = r.s.barrierOpenTime
  /\ servoAngle = r.s.servoAngle
  /\ buttonPressed = r.s.buttonPressed
  /\ lastButtonState = r.s.lastButtonState
  /\ lastDebounceTime = r.s.lastDebounceTime
  /\ lastDisplayUpdate = r.s.lastDisplayUpdate
  /\ servoLog = r.s.servoLog
  /\ rendered = r.s.rendered
  /\ lastRaw = r.raw
  /\ lastPin = r.pin
  /\ rawSince = r.since
  /\ wifi = [attempts |-> 0, connected |-> TRUE]
  /\ elapsed = [open |-> r.watch.open, raw |-> r.watch.raw, calls |-> 0]

Init == \E v \in Variants : \E r \in Starts(v) : InitAs(v, r)

InitOled == \E r \in Starts("oled") : InitAs("oled", r)

InitDraw == \E r \in StartsDraw : InitAs("lcd", r)

(***************************************************************************)
(* Actions                                                                 *)
(***************************************************************************)
\* no pass of loop() has run yet
AtBoot == \A i \in Slots(variant) : lastRaw[i] = NoReading

\* millis() at the start of the next pass of loop(): the first pass starts
\* as setup() returns, every other one delay(TickPeriod) after the body of
\* the pass before
NextPass == IF AtBoot THEN now + spent ELSE now + spent + TickPeriod(variant)

\* the running sketch between two passes
Here ==
  [s |-> [Cur EXCEPT !.spent = spent], now |-> now, boot |-> AtBoot,
   raw |-> lastRaw, pin |-> lastPin, since |-> rawSince,
   watch |-> [open |-> elapsed.open, raw |-> elapsed.raw]]

\* one pass of loop() of the barrier sketch
BarrierLoop ==
  /\ HasBarrier(variant)
  /\ elapsed.calls < MaxPasses
  /\ \E raw \in [Slots(variant) -> {LOW, HIGH}], pin \in {LOW, HIGH} :
       LET r == PassOf(Here, variant, raw, pin)
       IN  /\ r.s.totalDetections <= DetectionLimit(variant)
           /\ now' = r.now
           /\ lastRaw' = raw
           /\ lastPin' = pin
           /\ rawSince' = r.since
           /\ elapsed' = [open |-> r.watch.open, raw |-> r.watch.raw,
                          calls |-> elapsed.calls + 1]
           /\ Assign(r.s)
  /\ UNCHANGED <<variant, pc, wifi, drawTime>>

\* one pass of loop() of the 6-slot sketch
SixLoop ==
  /\ variant = "six"
  /\ \E raw \in [Slots(variant) -> {LOW, HIGH}] :
       LET t == NextPass
           s == loopPlain(Cur, variant, raw, t)
       IN  /\ t <= TimeLimit(variant)
           /\ s.totalDetections <= DetectionLimit(variant)
           /\ now' = t
           /\ lastRaw' = raw
           /\ Assign(s)
  /\ UNCHANGED <<variant, pc, lastPin, rawSince, wifi, drawTime, elapsed>>

\* the web sketch is followed to MaxNowNoBarrier when WiFi connected at once,
\* and for MaxNowOffline after setup() when initializeWiFi() had to wait
WebTimeLimit ==
  IF wifi.attempts = 0 /\ wifi.connected THEN TimeLimit("web")
  ELSE wifi.attempts * WIFI_POLL_DELAY + BootTime("web") + MaxNowOffline

\* web sketch: start of loop(), server.handleClient()
WebClient ==
  /\ variant = "web"
  /\ pc = "client"
  /\ \E req \in Requests :
       LET t == NextPass
           s == handleClient(Cur, variant, req, t)
       IN  /\ t <= WebTimeLimit
           /\ now' = t
           /\ Assign(s)
  /\ pc' = "scan"
  /\ UNCHANGED <<variant, lastRaw, lastPin, rawSince, wifi, drawTime, elapsed>>

\* web sketch: rest of loop(), the sensor scan
WebScan ==
  /\ variant = "web"
  /\ pc = "scan"
  /\ \E raw \in [Slots(variant) -> {LOW, HIGH}] :
       LET s == loopPlain(Cur, variant, raw, now)
       IN  /\ s.totalDetections <= DetectionLimit(variant)
           /\ lastRaw' = raw
           /\ Assign(s)
  /\ pc' = "client"
  /\ UNCHANGED <<variant, now, lastPin, rawSince, wifi, drawTime, elapsed>>

Next == BarrierLoop \/ SixLoop \/ WebClient \/ WebScan

Spec == Init /\ [][Next]_vars

NextOled == BarrierLoop

SpecOled == InitOled /\ [][NextOled]_vars

\* the LCD barrier sketch on a display that takes DrawTime to draw
NextDraw == BarrierLoop

SpecDraw == InitDraw /\ [][NextDraw]_vars

(***************************************************************************)
(* The web sketch from initializeWiFi() on.  SpecWiFi starts setup() at    *)
(* WiFi.begin(): WiFi.status() is an input, read anew by every test.  The  *)
(* processor keeps executing setup(), and delay() returns, hence the weak  *)
(* fairness of the two steps of initializeWiFi().                          *)
(***************************************************************************)
\* the loop test with the limit two attempts later
KeepsPolling_laterLimit(w, status) == ~status /\ w.attempts < WIFI_MAX_ATTEMPTS + 2

\* while (WiFi.status() != WL_CONNECTED && attempts < 20)
KeepsPolling(w, status) == ~status /\ w.attempts < WIFI_MAX_ATTEMPTS

InitWiFi ==
  /\ variant = "web"
  /\ pc = "wifi"
  /\ now = 0
  /\ slotOccupied = [i \in Slots(variant) |-> FALSE]
  /\ previousSlotState = [i \in Slots(variant) |-> FALSE]
  /\ occupiedCount = 0
  /\ availableSlots = SENSOR_COUNT(variant)
  /\ totalDetections = 0
  /\ systemStartTime = 0
  /\ redLed = FALSE
  /\ greenLed = TRUE
  /\ barrierOpen = FALSE
  /\ barrierOpenTime = 0
  /\ servoAngle = BARRIER_CLOSED_ANGLE
  /\ buttonPressed = ButtonPressedAtBoot
  /\ lastButtonState = IntToBool(HIGH)
  /\ lastDebounceTime = 0
  /\ lastDisplayUpdate = 0
  /\ servoLog = <<>>
  /\ rendered = <<>>
  /\ lastRaw = [i \in Slots(variant) |-> NoReading]
  /\ lastPin = HIGH
  /\ rawSince = 0
  /\ wifi = [attempts |-> 0, connected |-> FALSE]
  /\ lastMemoryCleanup = 0
  /\ drawTime = 0
  /\ spent = 0
  /\ elapsed = [open |-> 0, raw |-> 0, calls |-> 0]

\* initializeWiFi(): the loop test succeeds; delay(500); attempts++
WiFiWait ==
  /\ variant = "web"
  /\ pc = "wifi"
  /\ \E status \in BOOLEAN :
       /\ KeepsPolling(wifi, status)
       /\ wifi' = [attempts |-> wifi.attempts + 1, connected |-> status]
  /\ now' = now + WIFI_POLL_DELAY
  /\ UNCHANGED <<variant, pc, slotOccupied, previousSlotState, occupiedCount,
                 availableSlots, totalDetections, systemStartTime, redLed, greenLed,
                 barrierOpen, barrierOpenTime, servoAngle, buttonPressed,
                 lastButtonState, lastDebounceTime, lastDisplayUpdate, servoLog,
                 rendered, lastRaw, lastPin, rawSince, lastMemoryCleanup,
                 drawTime, spent, elapsed>>

\* initializeWiFi(): the loop test fails, the outcome is reported from a second
\* WiFi.status(), and setup() runs to its end: delay(1000), systemStartTime
WiFiReturn ==
  /\ variant = "web"
  /\ pc = "wifi"
  /\ \E status \in BOOLEAN, report \in BOOLEAN :
       /\ ~KeepsPolling(wifi, status)
       /\ wifi' = [attempts |-> wifi.attempts, connected |-> report]
  /\ now' = now + BootTime(variant)
  /\ systemStartTime' = now'
  /\ pc' = "client"
  /\ UNCHANGED <<variant, slotOccupied, previousSlotState, occupiedCount,
                 availableSlots, totalDetections, redLed, greenLed,
                 barrierOpen, barrierOpenTime, servoAngle, buttonPressed,
                 lastButtonState, lastDebounceTime, lastDisplayUpdate, servoLog,
                 rendered, lastRaw, lastPin, rawSince, lastMemoryCleanup,
                 drawTime, spent, elapsed>>

NextWiFi == WiFiWait \/ WiFiReturn \/ WebClient \/ WebScan

SpecWiFi == InitWiFi /\ [][NextWiFi]_vars /\ WF_vars(WiFiWait) /\ WF_vars(WiFiReturn)

(***************************************************************************)
(* The LCD barrier sketch around the wrap of millis().  WrapBase is the    *)
(* sketch 49.7 days after power-on with no car and no press so far: with   *)
(* passes 200 ms apart and 15 ms more after each memory cleanup, the pass  *)
(* before the one that starts 5101 ms short of 2^32; the last cleanup      *)
(* ended 30901 ms, the last periodic display update ran 13501 ms short of  *)
(* it.  The next cleanup falls due in the pass 901 ms before the wrap.     *)
(***************************************************************************)
WrapBase ==
  LET b == AtSetup("lcd", 0)
  IN  [b EXCEPT !.s.buttonPressed = IntToBool(HIGH),
                !.s.lastDisplayUpdate = 0 - 13501,
                !.s.lastMemoryCleanup = 0 - 30901,
                !.s.rendered = <<>>,
                !.s.spent = 0,
                !.now = 0 - 5301,
                !.boot = FALSE,
                !.raw = Cars({}),
                !.watch = [open |-> 0, raw |-> WatchMax]]

\* 1101 ms before the wrap: the barrier closed and the button quiet, or the
\* barrier opened by a press 3800 ms earlier
StartsWrap ==
  { Quiet(WrapBase, "lcd", 0 - 1101),
    After(WrapBase, "lcd", <<[raw |-> Cars({}), pin |-> LOW, till |-> 0 - 4901],
                             [raw |-> Cars({}), pin |-> HIGH, till |-> 0 - 1101]>>) }

InitTimers == \E r \in StartsWrap : InitAs("lcd", r)

NextTimers == BarrierLoop

SpecTimers == InitTimers /\ [][NextTimers]_vars

(***************************************************************************)
(* Occupancy counters                                                      *)
(***************************************************************************)
\* C1: in every reachable state of every variant, also right after an admin
\* reset, occupiedCount + availableSlots = SENSOR_COUNT and
\* 0 <= occupiedCount <= SENSOR_COUNT.
C1_CountsAddUp ==
  /\ occupiedCount + availableSlots = SENSOR_COUNT(variant)
  /\ 0 <= occupiedCount
  /\ occupiedCount <= SENSOR_COUNT(variant)

\* the state right after a reset that cleared a lot whose sensors still read occupied
C1_Witness ==
  /\ variant = "web"
  /\ pc = "scan"
  /\ systemStartTime = now
  /\ now > BootTime(variant)
  /\ \E i \in Slots(variant) : lastRaw[i] = LOW
  /\ occupiedCount = 0
  /\ availableSlots = SENSOR_COUNT(variant)

\* C2: at the end of every pass of loop(), occupiedCount is the number of
\* indices i with slotOccupied[i] true.
C2_CountIsRecount ==
  occupiedCount = Cardinality({i \in Slots(variant) : slotOccupied[i]})

\* slots A1 and B1 occupied, A2 free, in the barrier sketch
C2_Witness ==
  /\ variant = "lcd"
  /\ slotOccupied[0] /\ ~slotOccupied[1] /\ slotOccupied[2]
  /\ occupiedCount = 2


(***************************************************************************)
(* Debouncing and edges                                                    *)
(***************************************************************************)
\* the servo writes of a pass that handleButtonPress issued
ButtonWrites(log) == {k \in DOMAIN log : log[k].by = "button"}

\* C3: the debounced button level changes only to a level the raw input has
\* held for longer than DEBOUNCE_DELAY, at most once per run of constant raw
\* readings; the button acts on the barrier only when the committed change
\* is to LOW, and never on the pass that first sees a new level.
C3_ButtonDebounce ==
  [][ HasBarrier(variant) =>
        /\ (buttonPressed' # buttonPressed =>
               /\ BoolToInt(buttonPressed') = lastPin'
               /\ lastPin' = lastPin
               /\ now' - rawSince' > DEBOUNCE_DELAY)
        /\ ((lastPin' = lastPin /\ BoolToInt(buttonPressed) = lastPin) =>
               buttonPressed' = buttonPressed)
        /\ (ButtonWrites(servoLog') # {} =>
               /\ buttonPressed' # buttonPressed
               /\ BoolToInt(buttonPressed') = LOW)
        /\ (lastPin' # lastPin => ButtonWrites(servoLog') = {})
    ]_vars

\* a press committed on the pass after the one that first read LOW, one
\* delay() of the loop later
C3_Witness ==
  /\ variant = "lcd"
  /\ ButtonWrites(servoLog) # {}
  /\ lastPin = LOW
  /\ BoolToInt(buttonPressed) = LOW
  /\ now - rawSince = TickPeriod(variant)

\* the "Slot x ..." lines a pass prints for slot i
EdgesOf(log, i) == {k \in DOMAIN log : log[k].slot = i}

\* C4: in the barrier and 6-slot sketches, whatever a pass reads, it emits at
\* most one edge per slot, in the direction of the level read; from the
\* second pass on it emits one exactly for the slots whose raw level differs
\* from the level read by the pass before.
C4_OneEdgePerChange ==
  variant \in {"lcd", "six"} =>
    \A raw \in [Slots(variant) -> {LOW, HIGH}] :
      LET log == ScanSensors(Cur, variant, raw, now, 0).serialEdges
      IN  \A i \in Slots(variant) :
            /\ Cardinality(EdgesOf(log, i)) <= 1
            /\ \A k \in EdgesOf(log, i) : log[k].occupied = (raw[i] = LOW)
            /\ (lastRaw[i] # NoReading =>
                  (EdgesOf(log, i) # {} <=> raw[i] # lastRaw[i]))

\* after a pass that emitted a vacated edge (the scan opened the barrier)
\* while another slot reads occupied
C4_Witness ==
  /\ variant = "lcd"
  /\ servoLog # <<>>
  /\ servoLog[1].by = "scan"
  /\ \E i \in Slots(variant) : lastRaw[i] = LOW /\ slotOccupied[i]
  /\ \E i \in Slots(variant) : lastRaw[i] = HIGH /\ ~slotOccupied[i]


(***************************************************************************)
(* Barrier timing                                                          *)
(***************************************************************************)
\* The statement of C5 as written: at the end of every pass the barrier is
\* OPEN if and only if now - barrierOpenTime < BARRIER_OPEN_DURATION (taken
\* from the first open on, when barrierOpenTime holds a time of opening).
C5_OpenIffWithinDuration ==
  (HasBarrier(variant) /\ now > BootTime(variant) /\ barrierOpenTime # 0) =>
     (barrierOpen <=> Below(Sub(now, barrierOpenTime), BARRIER_OPEN_DURATION))

\* C5 (amended): at the end of every pass, if the barrier is OPEN then
\* now - barrierOpenTime < BARRIER_OPEN_DURATION.
C5_OpenOnlyWithinDuration ==
  (HasBarrier(variant) /\ barrierOpen) =>
     Below(Sub(now, barrierOpenTime), BARRIER_OPEN_DURATION)

\* the barrier still open 4800 ms after it was opened, on the last pass
\* before the timer closes it
C5_Witness ==
  /\ variant = "lcd"
  /\ barrierOpen
  /\ Sub(now, barrierOpenTime) = BARRIER_OPEN_DURATION - TickPeriod(variant)

\* C6: a pass that starts with the barrier OPEN and runs at a time with
\* now - barrierOpenTime >= BARRIER_OPEN_DURATION ends with the barrier
\* CLOSED, whatever it reads; and while the barrier stays OPEN across a pass
\* barrierOpenTime is not moved.
C6_AutoClose ==
  [][ (HasBarrier(variant) /\ barrierOpen) =>
        /\ (Ge(Sub(now', barrierOpenTime), BARRIER_OPEN_DURATION) => ~barrierOpen')
        /\ (barrierOpen' => barrierOpenTime' = barrierOpenTime)
    ]_vars

\* the timer closed the barrier on the pass exactly 5000 ms after the open,
\* while a slot is occupied
C6_Witness ==
  /\ variant = "lcd"
  /\ servoLog = <<[by |-> "timer", angle |-> BARRIER_CLOSED_ANGLE]>>
  /\ ~barrierOpen
  /\ Sub(now, barrierOpenTime) = BARRIER_OPEN_DURATION
  /\ occupiedCount > 0

\* a debounced press edge: buttonPressed goes from HIGH to LOW
PressEdge == BoolToInt(buttonPressed) = HIGH /\ BoolToInt(buttonPressed') = LOW

\* C7: the barrier goes from OPEN to CLOSED only through a close command;
\* every close command is issued by handleButtonPress on a press edge, or by
\* handleBarrierTiming at a time with now - barrierOpenTime >= 5000 for the
\* barrierOpenTime of the open it ends.
C7_CloseOnlyByPressOrTimer ==
  [][ HasBarrier(variant) =>
        /\ ((barrierOpen /\ ~barrierOpen') =>
               \E k \in DOMAIN servoLog' : servoLog'[k].angle = BARRIER_CLOSED_ANGLE)
        /\ \A k \in DOMAIN servoLog' :
              servoLog'[k].angle = BARRIER_CLOSED_ANGLE =>
                \/ servoLog'[k].by = "button" /\ PressEdge
                \/ /\ servoLog'[k].by = "timer"
                   /\ barrierOpen
                   /\ barrierOpenTime' = barrierOpenTime
                   /\ now' - barrierOpenTime >= BARRIER_OPEN_DURATION
    ]_vars

\* no car was ever seen: the barrier was opened by a press, and the timer
\* has closed it on the first pass that found 5000 ms elapsed
C7_Witness ==
  /\ variant = "lcd"
  /\ totalDetections = 0
  /\ servoLog = <<[by |-> "timer", angle |-> BARRIER_CLOSED_ANGLE]>>
  /\ now - barrierOpenTime >= BARRIER_OPEN_DURATION


(***************************************************************************)
(* Barrier triggers                                                        *)
(***************************************************************************)
\* the pass reads slot i vacant while its stored state is occupied
VacatedEdge(i) == previousSlotState[i] /\ lastRaw'[i] = HIGH

\* the open commands among the servo writes of a pass
OpenWrites(log) == {k \in DOMAIN log : log[k].angle = BARRIER_OPEN_ANGLE}

\* C8: a pass that processes a vacated edge while barrierOpen is false opens
\* the barrier in the scan: its first servo write is the scan's open command,
\* it is the only open command, barrierOpenTime is the time of the pass, and
\* the barrier is OPEN afterwards unless a press edge of the same pass
\* closed it again.
C8_VacatedEdgeOpens ==
  [][ (HasBarrier(variant) /\ ~barrierOpen
         /\ \E i \in Slots(variant) : VacatedEdge(i)) =>
        /\ servoLog' # <<>>
        /\ servoLog'[1] = [by |-> "scan", angle |-> BARRIER_OPEN_ANGLE]
        /\ Cardinality(OpenWrites(servoLog')) = 1
        /\ barrierOpenTime' = now'
        /\ (barrierOpen' \/ PressEdge)
        /\ (barrierOpen' => servoAngle' = BARRIER_OPEN_ANGLE)
    ]_vars

\* the scan has just opened the barrier: a slot that was occupied reads vacant
C8_Witness ==
  /\ variant = "lcd"
  /\ servoLog = <<[by |-> "scan", angle |-> BARRIER_OPEN_ANGLE]>>
  /\ barrierOpen
  /\ barrierOpenTime = now
  /\ servoAngle = BARRIER_OPEN_ANGLE
  /\ totalDetections > occupiedCount

\* the barrier as handleButtonPress finds it: as the pass began, or opened by the scan
OpenAfterScan ==
  barrierOpen \/ (servoLog' # <<>> /\ servoLog'[1].by = "scan")

\* C9: a debounced press edge toggles the barrier: found CLOSED it becomes
\* OPEN with barrierOpenTime = now, found OPEN it becomes CLOSED, whatever the
\* elapsed open time.
C9_PressToggles ==
  [][ (HasBarrier(variant) /\ PressEdge) =>
        IF OpenAfterScan
        THEN /\ ~barrierOpen'
             /\ servoAngle' = BARRIER_CLOSED_ANGLE
             /\ servoLog'[Len(servoLog')] = [by |-> "button", angle |-> BARRIER_CLOSED_ANGLE]
        ELSE /\ barrierOpen'
             /\ barrierOpenTime' = now'
             /\ servoAngle' = BARRIER_OPEN_ANGLE
             /\ servoLog' = <<[by |-> "button", angle |-> BARRIER_OPEN_ANGLE]>>
    ]_vars

\* a press closed the barrier 4600 ms after it was opened
C9_Witness ==
  /\ variant = "lcd"
  /\ servoLog = <<[by |-> "button", angle |-> BARRIER_CLOSED_ANGLE]>>
  /\ ~barrierOpen
  /\ now - barrierOpenTime = BARRIER_OPEN_DURATION - 2 * TickPeriod(variant)

\* C10: a pass issues an open command, and so the barrier goes from CLOSED to
\* OPEN, only if it has a vacated edge or a press edge; a pass whose only
\* events are occupied edges does not open the barrier.
C10_OpenOnlyOnVacatedOrPress ==
  [][ (HasBarrier(variant)
         /\ (OpenWrites(servoLog') # {} \/ (~barrierOpen /\ barrierOpen'))) =>
        \/ \E i \in Slots(variant) : VacatedEdge(i)
        \/ PressEdge
    ]_vars

\* the first pass found two slots occupied and left the barrier closed
C10_Witness ==
  /\ variant = "lcd"
  /\ now = BootTime(variant)
  /\ ~AtBoot
  /\ occupiedCount = 2
  /\ totalDetections = 2
  /\ ~barrierOpen
  /\ servoLog = <<>>


(***************************************************************************)
(* Servo commands                                                          *)
(***************************************************************************)
\* C11: the servo is written only when the position changes: every servo
\* write of a pass differs from the write before it (for the first write of
\* the pass, from the angle last written, which after setup() is the closed
\* angle), so the writes alternate open, close, open, ...; the angle last
\* written is the open angle exactly while barrierOpen holds; a pass with
\* several vacated edges issues one open command at most.
C11_ServoAlternates ==
  [][ HasBarrier(variant) =>
        /\ \A k \in DOMAIN servoLog' :
             servoLog'[k].angle # (IF k = 1 THEN servoAngle ELSE servoLog'[k - 1].angle)
        /\ (servoLog' # <<>> => servoAngle' = servoLog'[Len(servoLog')].angle)
        /\ (servoLog' = <<>> => servoAngle' = servoAngle)
        /\ (servoAngle' = BARRIER_OPEN_ANGLE <=> barrierOpen')
        /\ Cardinality(OpenWrites(servoLog')) <= 1
    ]_vars

\* the second pass, 200 ms after the first one, found vacant at least two slots that
\* the first pass had found occupied: two vacated edges, one open command
C11_Witness ==
  /\ variant = "lcd"
  /\ now = BootTime(variant) + TickPeriod(variant)
  /\ totalDetections >= 2
  /\ occupiedCount = 0
  /\ servoLog = <<[by |-> "scan", angle |-> BARRIER_OPEN_ANGLE]>>

\* C12: a vacated edge processed while the barrier is OPEN issues no open
\* command and leaves barrierOpenTime alone; the barrier stays OPEN with the
\* servo untouched unless the button or the timer, counting from the
\* original open time, closes it in the same pass.  barrierOpenTime changes
\* only in a pass that starts CLOSED and issues an open command.
C12_OpenTriggerWhileOpen ==
  [][ HasBarrier(variant) =>
        /\ ((barrierOpen /\ \E i \in Slots(variant) : VacatedEdge(i)) =>
              /\ OpenWrites(servoLog') = {}
              /\ \A k \in DOMAIN servoLog' : servoLog'[k].by # "scan"
              /\ barrierOpenTime' = barrierOpenTime
              /\ (barrierOpen' => (servoLog' = <<>> /\ servoAngle' = servoAngle))
              /\ (~barrierOpen' =>
                    \/ PressEdge
                    \/ now' - barrierOpenTime >= BARRIER_OPEN_DURATION))
        /\ (barrierOpenTime' # barrierOpenTime =>
              (~barrierOpen /\ OpenWrites(servoLog') # {}))
    ]_vars

\* a press committed 200 ms ago opened the barrier (the button reads LOW
\* since the pass before that one), and the one slot that was ever occupied
\* was found vacant by this pass, the barrier being open
C12_Witness ==
  /\ variant = "lcd"
  /\ totalDetections = 1
  /\ occupiedCount = 0
  /\ lastRaw = [i \in Slots(variant) |-> HIGH]
  /\ barrierOpen
  /\ barrierOpenTime = now - TickPeriod(variant)
  /\ lastPin = LOW
  /\ rawSince = barrierOpenTime - TickPeriod(variant)
  /\ rendered # <<>>
  /\ servoLog = <<>>

\* C13: whatever a pass reads, when handleButtonPress commits the HIGH level
\* (a debounced release) it changes buttonPressed and nothing else: barrier
\* flag, open time, servo, slot states, counts and LEDs are as the scan of
\* that pass left them.
C13_ReleaseChangesOnlyLevel ==
  HasBarrier(variant) =>
    \A raw \in [Slots(variant) -> {LOW, HIGH}], pin \in {LOW, HIGH} :
      LET t == NextPass
          s1 == ScanSensors(Cur, variant, raw, t, 0)
          s2 == handleButtonPress(s1, pin, t)
      IN  (s2.buttonPressed # s1.buttonPressed /\ BoolToInt(s2.buttonPressed) = HIGH) =>
             s2 = [s1 EXCEPT !.buttonPressed = IntToBool(HIGH)]

\* no slot was ever occupied, so the barrier open since 400 ms was opened by
\* a press; the button reads HIGH since the pass before, and this pass has
\* committed the release with the barrier left open
C13_Witness ==
  /\ variant = "lcd"
  /\ totalDetections = 0
  /\ barrierOpen
  /\ barrierOpenTime = now - 2 * TickPeriod(variant)
  /\ BoolToInt(buttonPressed) = HIGH
  /\ lastPin = HIGH
  /\ rawSince = now - TickPeriod(variant)
  /\ servoLog = <<>>

(***************************************************************************)
(* LEDs and the idle system                                                *)
(***************************************************************************)
\* C14: at the end of every pass exactly one LED is lit, and the red one is
\* lit if and only if occupiedCount = SENSOR_COUNT.
C14_OneLedLit ==
  /\ redLed # greenLed
  /\ redLed <=> (occupiedCount = SENSOR_COUNT(variant))

\* the lot is full for the second time at least (four detections on three
\* slots): red is lit, green is off
C14_Witness ==
  /\ variant = "lcd"
  /\ totalDetections = 4
  /\ occupiedCount = SENSOR_COUNT(variant)
  /\ redLed
  /\ ~greenLed

\* the system at rest: every slot vacant, counters and LEDs saying so, the
\* barrier closed, the button input high
Idle ==
  /\ \A i \in Slots(variant) : ~slotOccupied[i] /\ ~previousSlotState[i]
  /\ occupiedCount = 0
  /\ availableSlots = SENSOR_COUNT(variant)
  /\ greenLed
  /\ ~redLed
  /\ ~barrierOpen
  /\ servoAngle = BARRIER_CLOSED_ANGLE
  /\ lastPin = HIGH

\* C15: the barrier sketch leaves setup() at rest, and a pass that starts at
\* rest and reads every sensor vacant and the button released ends at rest:
\* no edge (no detection counted), no servo command, no barrier transition,
\* barrierOpenTime unchanged.
C15_IdlePersists ==
  [][ HasBarrier(variant) =>
        /\ (AtBoot => Idle)
        /\ ((Idle /\ lastPin' = HIGH /\ \A i \in Slots(variant) : lastRaw'[i] = HIGH) =>
              /\ Idle'
              /\ totalDetections' = totalDetections
              /\ servoLog' = <<>>
              /\ barrierOpenTime' = barrierOpenTime)
    ]_vars

\* the pass after the first memory cleanup, 30 s after boot, nothing ever
\* read but vacant and released
C15_Witness ==
  /\ variant = "lcd"
  /\ now = MEMORY_CLEANUP_INTERVAL + CleanupTime + TickPeriod(variant)
  /\ Idle
  /\ totalDetections = 0
  /\ rawSince = 0
  /\ barrierOpenTime = 0
  /\ BoolToInt(buttonPressed) = HIGH
  /\ servoLog = <<>>


(***************************************************************************)
(* Reset and status queries                                                *)
(***************************************************************************)
\* the step answered a POST /api/admin with success: the reset was executed
ResetStep ==
  /\ variant = "web"
  /\ pc = "client"
  /\ rendered' = <<[kind |-> "admin", code |-> 200, success |-> TRUE]>>

\* C16: the reset leaves every slotOccupied[i] and previousSlotState[i]
\* false, occupiedCount 0, availableSlots SENSOR_COUNT, totalDetections 0,
\* systemStartTime at the current time and the green LED lit alone; it
\* changes nothing of the barrier and the button.
C16_ResetPostcondition ==
  [][ ResetStep =>
        /\ \A i \in Slots(variant) : ~slotOccupied'[i] /\ ~previousSlotState'[i]
        /\ occupiedCount' = 0
        /\ availableSlots' = SENSOR_COUNT(variant)
        /\ totalDetections' = 0
        /\ systemStartTime' = now'
        /\ greenLed' /\ ~redLed'
        /\ servoLog' = <<>>
        /\ UNCHANGED <<barrierOpen, barrierOpenTime, servoAngle, buttonPressed,
                       lastButtonState, lastDebounceTime>>
    ]_vars

\* right after a reset of a lot whose three sensors all read occupied
C16_Witness ==
  /\ variant = "web"
  /\ pc = "scan"
  /\ rendered = <<[kind |-> "admin", code |-> 200, success |-> TRUE]>>
  /\ \A i \in Slots(variant) : lastRaw[i] = LOW
  /\ occupiedCount = 0
  /\ totalDetections = 0
  /\ systemStartTime = now
  /\ greenLed

\* the core state of a record of globals
CoreOf(s) ==
  [ slotOccupied |-> s.slotOccupied, previousSlotState |-> s.previousSlotState,
    occupiedCount |-> s.occupiedCount, availableSlots |-> s.availableSlots,
    totalDetections |-> s.totalDetections, systemStartTime |-> s.systemStartTime,
    barrierOpen |-> s.barrierOpen, barrierOpenTime |-> s.barrierOpenTime ]

\* the status renderings, run on the current globals, return their core unchanged
RenderKeepsCore ==
  /\ CoreOf(updateDisplay(Cur, variant, now)) = CoreOf(Cur)
  /\ CoreOf(printParkingStatus(Cur, variant)) = CoreOf(Cur)
  /\ CoreOf(handleStatusAPI(Cur, variant, now)) = CoreOf(Cur)

\* C17: a status query changes no core state: the step of the web sketch
\* that answers GET /api/status leaves slot states, previous slot states,
\* counts, totalDetections, systemStartTime and the barrier fields as they
\* were, and so do updateDisplay, printParkingStatus and handleStatusAPI run
\* on the globals of any reachable state.
C17_StatusIsReadOnly ==
  [][ /\ (variant = "web" /\ pc = "client"
            /\ rendered' # <<>> /\ rendered'[1].kind = "json") =>
           UNCHANGED <<slotOccupied, previousSlotState, occupiedCount,
                       availableSlots, totalDetections, systemStartTime,
                       barrierOpen, barrierOpenTime, redLed, greenLed>>
      /\ RenderKeepsCore
      /\ RenderKeepsCore'
    ]_vars

\* right after a status query answered with two of three slots occupied,
\* three detections and an uptime of a full second at least
C17_Witness ==
  /\ variant = "web"
  /\ pc = "scan"
  /\ Len(rendered) = 1
  /\ rendered[1].kind = "json"
  /\ rendered[1].occupied = 2
  /\ rendered[1].uptime >= 1
  /\ occupiedCount = 2
  /\ totalDetections = 3

(***************************************************************************)
(* Sensor debouncing, reset and edges, status consistency                  *)
(***************************************************************************)
\* C18: in the barrier sketch a slot's accepted state changes only in a pass
\* whose raw reading of the slot equals the reading of the pass before: the
\* new level has then been shown on two consecutive passes.
C18_SensorNeedsTwoReadings ==
  [][ HasBarrier(variant) =>
        \A i \in Slots(variant) :
          (lastRaw[i] # NoReading /\ slotOccupied'[i] # slotOccupied[i]) =>
             lastRaw'[i] = lastRaw[i]
    ]_vars

\* C19: in the web sketch a scan that reads every sensor at the level the
\* scan before read emits no edge: totalDetections and the slot states stay
\* as they are, also when a reset has been executed in between.
C19_NoEdgeWithoutRawChange ==
  [][ (variant = "web" /\ pc = "scan"
         /\ \A i \in Slots(variant) : lastRaw'[i] = lastRaw[i]) =>
        /\ totalDetections' = totalDetections
        /\ slotOccupied' = slotOccupied
    ]_vars

\* the number of occupied entries of a slot array
OccupiedIn(occ, v) == Cardinality({i \in Slots(v) : occ[i]})

\* C20: every status rendered by updateDisplay or printParkingStatus is
\* consistent: the counts it shows are the numbers of occupied and vacant
\* entries of the slot array it shows (of slotOccupied as the pass leaves
\* it, for the LCD screens, which show the occupied count only).
C20_RenderedConsistent ==
  \A k \in DOMAIN rendered :
    LET r == rendered[k]
    IN  /\ (r.kind = "serial" \/ (r.kind = "display" /\ variant = "oled")) =>
              /\ r.occupiedCount = OccupiedIn(r.slotOccupied, variant)
              /\ r.availableSlots = SENSOR_COUNT(variant) - OccupiedIn(r.slotOccupied, variant)
        /\ (r.kind = "display" /\ variant # "oled") =>
              r.occupiedCount = OccupiedIn(slotOccupied, variant)


(***************************************************************************)
(* Vacated edges and the other handlers of the same pass                   *)
(***************************************************************************)
\* The statement of C21 as written: every pass that commits a vacated edge
\* ends with the barrier OPEN.
C21_VacatedEndsOpen ==
  [][ (HasBarrier(variant) /\ \E i \in Slots(variant) : VacatedEdge(i)) =>
        barrierOpen'
    ]_vars

\* C21 (amended): a pass that commits a vacated edge ends with the barrier
\* OPEN unless the button handler commits a press edge in the same pass, or
\* the barrier was already OPEN when the pass began and the pass runs 5000 ms
\* or more after that open; in those cases the last servo write of the pass
\* is the close of the button or of the timer.
C21_VacatedEndsOpenUnlessClosed ==
  [][ (HasBarrier(variant) /\ \E i \in Slots(variant) : VacatedEdge(i)) =>
        /\ \/ barrierOpen'
           \/ PressEdge
           \/ barrierOpen /\ now' - barrierOpenTime >= BARRIER_OPEN_DURATION
        /\ (~barrierOpen' =>
              /\ servoLog' # <<>>
              /\ servoLog'[Len(servoLog')].angle = BARRIER_CLOSED_ANGLE
              /\ servoLog'[Len(servoLog')].by \in {"button", "timer"})
        /\ ((barrierOpen' /\ ~barrierOpen) =>
              servoLog' = <<[by |-> "scan", angle |-> BARRIER_OPEN_ANGLE]>>)
    ]_vars

\* a pass in which the scan opened the barrier for a vacated edge and the
\* press committed by the same pass closed it again
C21_Witness ==
  /\ variant = "lcd"
  /\ servoLog = <<[by |-> "scan", angle |-> BARRIER_OPEN_ANGLE],
                  [by |-> "button", angle |-> BARRIER_CLOSED_ANGLE]>>
  /\ ~barrierOpen
  /\ barrierOpenTime = now
  /\ BoolToInt(buttonPressed) = LOW


(***************************************************************************)
(* The button across passes                                                *)
(***************************************************************************)
\* C23: with passes more than DEBOUNCE_DELAY apart (the delay() of loop()
\* is four times the window), a button debounced as
\* released that reads LOW on two consecutive passes toggles the barrier
\* once, on the second of them (nothing happens on the first), and while it
\* goes on reading LOW no further pass commits or toggles.
C23_PressTogglesOnce ==
  [][ HasBarrier(variant) =>
        /\ ((BoolToInt(buttonPressed) = HIGH /\ lastPin = HIGH /\ lastPin' = LOW) =>
              /\ buttonPressed' = buttonPressed
              /\ ButtonWrites(servoLog') = {})
        /\ ((BoolToInt(buttonPressed) = HIGH /\ lastPin = LOW /\ lastPin' = LOW) =>
              /\ rawSince = now
              /\ PressEdge
              /\ Cardinality(ButtonWrites(servoLog')) = 1
              /\ (barrierOpen' <=> ~OpenAfterScan))
        /\ ((BoolToInt(buttonPressed) = LOW /\ lastPin' = LOW) =>
              /\ buttonPressed' = buttonPressed
              /\ ButtonWrites(servoLog') = {})
    ]_vars

\* no slot was ever occupied; the button reads LOW since 800 ms; the pass
\* after the first LOW reading opened the barrier, and the three passes
\* since then left it alone
C23_Witness ==
  /\ variant = "lcd"
  /\ totalDetections = 0
  /\ lastPin = LOW
  /\ now - rawSince = 4 * TickPeriod(variant)
  /\ rawSince > BootTime(variant)
  /\ BoolToInt(buttonPressed) = LOW
  /\ barrierOpen
  /\ barrierOpenTime = rawSince + TickPeriod(variant)
  /\ servoLog = <<>>

\* the button has read LOW on every pass since the first one, which runs
\* as setup() returns
HeldSinceBoot ==
  /\ lastPin = LOW
  /\ rawSince = BootTime(variant)

\* C24: the button acts on the barrier only in a pass that takes the
\* debounced level from HIGH to LOW, and the debounced level is HIGH only
\* after a HIGH reading was committed (it is LOW at boot); a commit of HIGH,
\* the first one after boot included, takes no barrier action; and a button
\* that reads LOW since the first pass after boot commits nothing and takes
\* no barrier action.
C24_ActsOnlyOnPressAfterBoot ==
  [][ HasBarrier(variant) =>
        /\ (AtBoot => BoolToInt(buttonPressed) = LOW)
        /\ (ButtonWrites(servoLog') # {} => PressEdge)
        /\ (BoolToInt(buttonPressed') = HIGH =>
              (ButtonWrites(servoLog') = {} /\ (buttonPressed' # buttonPressed => lastPin' = HIGH)))
        /\ ((AtBoot /\ lastPin' = HIGH) =>
              BoolToInt(buttonPressed') = HIGH)
        /\ (HeldSinceBoot' =>
              /\ buttonPressed' = buttonPressed
              /\ ButtonWrites(servoLog') = {})
    ]_vars

\* the button held from boot on, 1000 ms long: the barrier has never moved
C24_Witness ==
  /\ variant = "lcd"
  /\ HeldSinceBoot
  /\ now = BootTime(variant) + 5 * TickPeriod(variant)
  /\ totalDetections = 0
  /\ ~barrierOpen
  /\ barrierOpenTime = 0
  /\ servoLog = <<>>


(***************************************************************************)
(* Web responses, admin requests, the detection counter                    *)
(***************************************************************************)
\* C27: every /api/status response and every dashboard page of the web
\* sketch reports an occupied count equal to the number of true entries of
\* the slots it reports, and available = total - occupied.
C27_ResponseConsistent ==
  \A k \in DOMAIN rendered :
    LET r == rendered[k]
    IN  (r.kind = "json" \/ (r.kind = "html" /\ "page" \notin DOMAIN r)) =>
          /\ r.occupied = OccupiedIn(r.slots, variant)
          /\ r.available = r.total - r.occupied
          /\ r.total = SENSOR_COUNT(variant)

\* a dashboard page that reports two of three slots occupied after three
\* detections
C27_Witness ==
  /\ variant = "web"
  /\ pc = "scan"
  /\ Len(rendered) = 1
  /\ rendered[1].kind = "html"
  /\ "page" \notin DOMAIN rendered[1]
  /\ rendered[1].occupied = 2
  /\ rendered[1].available = 1
  /\ rendered[1].totalDetections = 3
  /\ Cardinality({i \in Slots(variant) : rendered[1].slots[i]}) = 2

\* the replies of handleAdminAPI to a request that is not a reset
RefusedReplies ==
  { <<[kind |-> "admin", code |-> 200, success |-> FALSE]>>,
    <<[kind |-> "admin", code |-> 400]>> }

\* C28: a POST /api/admin with an action other than "reset" is answered
\* success = false, one without body HTTP 400, and the step that gives
\* either answer leaves slot states, previous slot states, counts,
\* totalDetections, systemStartTime and LEDs unchanged.
C28_OtherAdminRequestsChangeNothing ==
  [][ (variant = "web" /\ pc = "client") =>
        /\ LET t == NextPass
             IN  /\ handleClient(Cur, variant, "unknown", t).rendered
                      = <<[kind |-> "admin", code |-> 200, success |-> FALSE]>>
                 /\ handleClient(Cur, variant, "nobody", t).rendered
                      = <<[kind |-> "admin", code |-> 400]>>
                 /\ handleClient(Cur, variant, "reset", t).rendered
                      = <<[kind |-> "admin", code |-> 200, success |-> TRUE]>>
        /\ (rendered' \in RefusedReplies =>
              UNCHANGED <<slotOccupied, previousSlotState, occupiedCount,
                          availableSlots, totalDetections, systemStartTime,
                          redLed, greenLed>>)
    ]_vars

\* right after an admin request without body was refused, the lot being full
C28_Witness ==
  /\ variant = "web"
  /\ pc = "scan"
  /\ rendered = <<[kind |-> "admin", code |-> 400]>>
  /\ occupiedCount = SENSOR_COUNT(variant)
  /\ totalDetections = 3
  /\ redLed
  /\ systemStartTime = BootTime(variant)

\* the occupied edges a scan commits: slots stored vacant that it reads occupied
OccupiedEdges == {i \in Slots(variant) : ~previousSlotState[i] /\ lastRaw'[i] = LOW}

\* C29: a pass of loop() raises totalDetections by the number of occupied
\* edges it commits, so by nothing for vacated edges and button events; a
\* step of the web server leaves it alone unless it executes the reset,
\* which sets it to 0.
C29_DetectionsCountOccupiedEdges ==
  [][ IF variant = "web" /\ pc = "client"
      THEN \/ totalDetections' = totalDetections
           \/ ResetStep /\ totalDetections' = 0
      ELSE totalDetections' = totalDetections + Cardinality(OccupiedEdges)
    ]_vars

\* three detections so far, one slot occupied now, in a pass whose press
\* edge moved the barrier
C29_Witness ==
  /\ variant = "lcd"
  /\ totalDetections = 3
  /\ occupiedCount = 1
  /\ ButtonWrites(servoLog) # {}


(***************************************************************************)
(* The two barrier sketches                                                *)
(***************************************************************************)
\* what the OLED and the LCD sketch have in common: everything but the screen
BarrierCoreOf(s) ==
  [ slotOccupied |-> s.slotOccupied, previousSlotState |-> s.previousSlotState,
    occupiedCount |-> s.occupiedCount, availableSlots |-> s.availableSlots,
    totalDetections |-> s.totalDetections, systemStartTime |-> s.systemStartTime,
    redLed |-> s.redLed, greenLed |-> s.greenLed,
    barrierOpen |-> s.barrierOpen, barrierOpenTime |-> s.barrierOpenTime,
    servoAngle |-> s.servoAngle, servoLog |-> s.servoLog,
    buttonPressed |-> s.buttonPressed, lastButtonState |-> s.lastButtonState,
    lastDebounceTime |-> s.lastDebounceTime, serialEdges |-> s.serialEdges ]

\* C30: the OLED and the LCD barrier sketch implement the same core: they
\* boot into the same slot states, counts, LEDs and barrier, and from equal
\* core states one pass of loop() on the same sensor readings, button
\* reading and clock gives equal slot states, counts, LEDs, barrier position,
\* barrierOpenTime and servo commands, whatever the time of the last screen
\* update.
C30_SameCore ==
  HasBarrier(variant) =>
    /\ BarrierCoreOf(Boot("lcd")) = BarrierCoreOf(Boot("oled"))
    /\ \A raw \in [Slots(variant) -> {LOW, HIGH}], pin \in {LOW, HIGH} :
         LET t == NextPass
             fresh == [Cur EXCEPT !.lastDisplayUpdate = 0]
             lcd == BarrierCoreOf(loopBarrier(Cur, "lcd", raw, pin, t))
         IN  /\ BarrierCoreOf(loopBarrier(Cur, "oled", raw, pin, t)) = lcd
             /\ BarrierCoreOf(loopBarrier(fresh, "oled", raw, pin, t)) = lcd
             /\ BarrierCoreOf(loopBarrier(fresh, "lcd", raw, pin, t)) = lcd

\* the OLED sketch with a full lot, the barrier open and a screen update
\* behind it: a pass of the LCD sketch 5 s later that sees a car
\* leave recounts, turns the green LED on and closes the barrier by the timer
C30_Witness ==
  /\ variant = "oled"
  /\ occupiedCount = 3
  /\ redLed
  /\ barrierOpen
  /\ now - barrierOpenTime <= TickPeriod(variant)
  /\ lastDisplayUpdate # 0
  /\ LET n == loopBarrier(Cur, "lcd", [i \in Slots(variant) |-> IF i = 0 THEN HIGH ELSE LOW],
                          HIGH, now + BARRIER_OPEN_DURATION)
     IN  n.greenLed /\ ~n.barrierOpen /\ n.occupiedCount = 2

(***************************************************************************)
(* The countdown on the screen                                             *)
(***************************************************************************)
\* C26: whenever updateDisplay renders the barrier OPEN, the remaining time
\* it shows, unsigned (BARRIER_OPEN_DURATION - (millis() - barrierOpenTime))
\* / 1000, lies in 0..5: the subtraction never underflows.
C26_TimeLeftInRange ==
  \A k \in DOMAIN rendered :
    (rendered[k].kind = "display" /\ HasBarrier(variant) /\ rendered[k].barrierOpen)
      => rendered[k].time.value \in 0 .. (BARRIER_OPEN_DURATION \div 1000)


(***************************************************************************)
(* The polled timers                                                       *)
(***************************************************************************)
\* the button level the pass read differs from the debounced level it found
NewLevel == lastPin' # BoolToInt(buttonPressed)

\* the servo commands of handleBarrierTiming() in a pass
TimerWrites(log) == {k \in DOMAIN log : log[k].by = "timer"}

\* C22 is about a call of handleButtonPress() that reads a level other than
\* the debounced one at now - lastDebounceTime = DEBOUNCE_DELAY exactly.
\* The comparison of the code is strict, so such a call would not commit;
\* but lastDebounceTime is a value of millis() read in a call of the
\* handler, and loop() calls the handler once per pass, the passes at least
\* TickPeriod apart: no call finds the difference in 1 .. DEBOUNCE_DELAY.
NoCallAtWindow ==
  HasBarrier(variant) =>
    \/ lastDebounceTime = now
    \/ Gt(Sub(now, lastDebounceTime), DEBOUNCE_DELAY)

\* C25: the polled timers are correct across the wrap-around of millis():
\* the handleBarrierTiming() of a pass closes the open barrier exactly when
\* the true time since it was opened has reached BARRIER_OPEN_DURATION, and
\* the handleButtonPress() of a pass commits a level other than the
\* debounced one exactly when the true time since the reading last changed
\* exceeds DEBOUNCE_DELAY, also when the clock wrapped in between.
C25_TimersSurviveWrap ==
  [][ /\ TimerWrites(servoLog') # {} => elapsed'.open >= BARRIER_OPEN_DURATION
      /\ barrierOpen' => elapsed'.open < BARRIER_OPEN_DURATION
      /\ (buttonPressed' # buttonPressed) <=> (NewLevel /\ elapsed'.raw > DEBOUNCE_DELAY)
      /\ (buttonPressed' # buttonPressed) => BoolToInt(buttonPressed') = lastPin'
    ]_vars

\* the barrier closed by the timer in the first pass after the wrap, 5015 ms
\* after an open that preceded it: the clock is below barrierOpenTime
C25_Witness ==
  /\ ~barrierOpen
  /\ elapsed.open >= BARRIER_OPEN_DURATION
  /\ elapsed.open < BARRIER_OPEN_DURATION + TickPeriod(variant)
  /\ Below(now, barrierOpenTime)
  /\ Sub(now, barrierOpenTime) = elapsed.open
  /\ servoLog = <<[by |-> "timer", angle |-> BARRIER_CLOSED_ANGLE]>>


(***************************************************************************)
(* The LED rule of the 6-slot sketch                                       *)
(***************************************************************************)
\* the LEDs updateLEDStatus() of sketch v leaves for an occupied count of c,
\* whatever they were before
LedsFor(v, c) ==
  LET s == updateLEDStatus([Cur EXCEPT !.occupiedCount = c], v)
  IN  [red |-> s.redLed, green |-> s.greenLed]

\* C31: the three-branch LED rule of the 6-slot sketch is the binary rule of
\* the 3-slot sketches: for every occupiedCount in 0..SENSOR_COUNT it lights
\* red only when the lot is full and green only otherwise, so an empty and
\* a partly occupied lot give the same output, and it agrees with the rule
\* of each 3-slot sketch on every pair of counts that are both full or both
\* not full.
C31_SixLedRuleIsBinary ==
  /\ \A c \in 0 .. SENSOR_COUNT("six") :
       /\ LedsFor("six", c) = [red |-> c = SENSOR_COUNT("six"),
                               green |-> c # SENSOR_COUNT("six")]
       /\ c < SENSOR_COUNT("six") => LedsFor("six", c) = LedsFor("six", 0)
       /\ \A v \in {"lcd", "oled", "web"} : \A c3 \in 0 .. SENSOR_COUNT(v) :
            ((c = SENSOR_COUNT("six")) <=> (c3 = SENSOR_COUNT(v)))
              => LedsFor("six", c) = LedsFor(v, c3)
  /\ variant = "six" =>
       [red |-> redLed, green |-> greenLed] = LedsFor("six", occupiedCount)

\* the 6-slot sketch with three of six slots occupied after a car has left:
\* green only
C31_Witness ==
  /\ variant = "six"
  /\ occupiedCount = 3
  /\ totalDetections = 4
  /\ greenLed
  /\ ~redLed


(***************************************************************************)
(* The periodic status print of the OLED sketch                            *)
(***************************************************************************)
\* C33: the OLED sketch prints the parking status periodically even when no
\* sensor changes: in a run without slot edges, a pass that finds more than
\* DISPLAY_UPDATE_INTERVAL elapsed since the periodic timer was last
\* restarted calls printParkingStatus.  (Without edges nothing else prints,
\* and the pass restarts the timer, so a pass that skips the print leaves
\* more than an interval plus one tick without any.)
C33_PeriodicPrint ==
  [][ (variant = "oled" /\ totalDetections' = 0
         /\ Gt(Sub(now', lastDisplayUpdate), DISPLAY_UPDATE_INTERVAL))
        => \E k \in DOMAIN rendered' : rendered'[k].kind = "serial" ]_vars


(***************************************************************************)
(* WiFi initialisation                                                     *)
(***************************************************************************)
\* setup() of the web sketch has just returned: the clock stands at the
\* delays of initializeWiFi() and setup(), systemStartTime is set, no sensor
\* has been read, the lot is recorded empty and the green LED is lit
SetupDone ==
  /\ pc = "client"
  /\ now = wifi.attempts * WIFI_POLL_DELAY + BootTime(variant)
  /\ systemStartTime = now
  /\ \A i \in Slots(variant) : lastRaw[i] = NoReading /\ ~slotOccupied[i]
  /\ occupiedCount = 0
  /\ availableSlots = SENSOR_COUNT(variant)
  /\ greenLed /\ ~redLed
  /\ rendered = <<>>

\* a pass of loop() has scanned the sensors and left slots, counts and LEDs
\* as the readings demand
ScannedOnce ==
  /\ pc = "client"
  /\ \A i \in Slots(variant) : lastRaw[i] \in {LOW, HIGH}
  /\ \A i \in Slots(variant) : slotOccupied[i] <=> (lastRaw[i] = LOW)
  /\ occupiedCount = Cardinality({i \in Slots(variant) : lastRaw[i] = LOW})
  /\ availableSlots = SENSOR_COUNT(variant) - occupiedCount
  /\ redLed <=> (occupiedCount = SENSOR_COUNT(variant))
  /\ greenLed <=> ~redLed

\* C32: WiFi initialisation always terminates: from every state inside
\* initializeWiFi() the web sketch reaches the end of setup() with attempts
\* at most 20, whether or not a connection was established, ready for
\* loop().
C32_WiFiInitTerminates ==
  (pc = "wifi") ~> (SetupDone /\ wifi.attempts <= WIFI_MAX_ATTEMPTS)

\* offline mode after the full wait: 20 attempts, no connection, setup()
\* finished 11 s after WiFi.begin(), and a pass of loop() that found all
\* three slots occupied
C32_Witness ==
  /\ variant = "web"
  /\ ScannedOnce
  /\ wifi = [attempts |-> WIFI_MAX_ATTEMPTS, connected |-> FALSE]
  /\ systemStartTime = WIFI_MAX_ATTEMPTS * WIFI_POLL_DELAY + BootTime(variant)
  /\ now > systemStartTime
  /\ occupiedCount = SENSOR_COUNT(variant)
  /\ redLed

=============================================================================
